---- MODULE Spec2Model ----
(* Fraud-prediction service: the Flask server (src/app.py) and the         *)
(* Streamlit dashboard (src/streamlit_app.py).                              *)
(*                                                                          *)
(* A DataFrame is [columns |-> <<names>>, rows |-> <<rows>>], a row being   *)
(* a sequence of cells aligned with columns.  A cell is Text(s) or Num(n).  *)
(* Percentages are exact fractions [num, den].  The 'timestamp' entry of    *)
(* LAST_PREDICTIONS (wall-clock time, read by no handler) is left out.      *)
EXTENDS Integers, Sequences, FiniteSets, TLC

\* ------------------------------------------------------------------ bounds
MaxRows == 3          \* rows per upload when requests are served one at a time
MaxConcRows == 1      \* rows per upload when handlers run concurrently
MaxRuleRows == 2      \* records per batch given to the rule overlay

\* -------------------------------------------------------------------- state
VARIABLES
    app,               \* which program runs: "flask" or "streamlit"
    LAST_PREDICTIONS,  \* app.py global
    session_state,     \* st.session_state['results'], None when the key is absent
    pc,                \* position of each handler
    req,               \* locals of the running predict request / dashboard run
    gp,                \* locals of get_predictions
    dl,                \* locals of download_predictions
    last_success,      \* history: the upload of the latest request answered with success
    rules              \* locals of the rule overlay engine (applyRules)

vars == <<app, LAST_PREDICTIONS, session_state, pc, req, gp, dl, last_success, rules>>

\* ------------------------------------------------------------- basic values
None == [none |-> TRUE]
Text(s) == [s |-> s]
Num(n) == [n |-> n]
IsText(v) == DOMAIN v = {"s"}
IsNum(v) == DOMAIN v = {"n"}

Range(f) == {f[i] : i \in DOMAIN f}
IndexOf(seq, x) == CHOOSE i \in DOMAIN seq : seq[i] = x

RECURSIVE SumSeq(_)
SumSeq(s) == IF s = <<>> THEN 0 ELSE Head(s) + SumSeq(Tail(s))

\* ------------------------------------------------- the trained artifact bundle
\* ENCODER.classes_ : the label encoder's vocabulary, code = position - 1
Vocabulary == <<"FR", "MA">>
\* SCALER.get_feature_names_out()
ScalerFeatures == <<"Amount", "avg_amount_per_customer", "amount_ratio">>
\* MODEL.feature_names_in_
ModelFeatures == <<"Country", "Amount", "avg_amount_per_customer", "amount_ratio">>

\* SCALER.mean_ / SCALER.scale_ (affine transform per declared feature)
ScalerMean(c) == CASE c = "Amount" -> 4
                   [] c = "avg_amount_per_customer" -> 2
                   [] c = "amount_ratio" -> 1
ScalerScale(c) == CASE c = "Amount" -> 2
                    [] c = "avg_amount_per_customer" -> 1
                    [] c = "amount_ratio" -> 1

\* ------------------------------------------------------------- uploaded data
CellValues(c) == CASE c = "Country" -> {Text("FR"), Text("MA"), Text("XX")}
                   [] c = "Amount" -> {Num(10)}
                   [] c = "avg_amount_per_customer" -> {Num(5)}
                   [] c = "amount_ratio" -> {Num(2)}
                   [] c = "TxnId" -> {Num(7)}

\* column lists of the uploads: every selection of the model's features in the
\* declared order, the features in another order, and the features with one
\* more column
Layouts == { SelectSeq(ModelFeatures, LAMBDA c : c \in S) : S \in SUBSET Range(ModelFeatures) }
           \cup { <<"Amount", "Country", "avg_amount_per_customer", "amount_ratio">>,
                  ModelFeatures \o <<"TxnId">> }

RECURSIVE RowsOver(_)
RowsOver(cols) == IF cols = <<>> THEN {<<>>}
                  ELSE { <<v>> \o r : v \in CellValues(Head(cols)), r \in RowsOver(Tail(cols)) }

Tables(maxRows) ==
    UNION { { [columns |-> cols, rows |-> rs] :
                rs \in UNION { [1..n -> RowsOver(cols)] :
                               n \in 0..(IF cols = <<>> THEN 0 ELSE maxRows) } } :
            cols \in Layouts }

SampleTable == [columns |-> ModelFeatures,
                rows |-> << <<Text("FR"), Num(10), Num(5), Num(2)>> >>]

\* a filename is the sequence of its '.'-separated parts
Filenames == { <<"">>, <<"data">>, <<"notes", "txt">>, <<"data", "csv">>,
               <<"data", "CSV">>, <<"data", "xlsx">>, <<"data", "xls">> }
Formats == {"csv", "excel", "garbage"}

NoFile == [present |-> FALSE]
Uploads(maxRows) ==
    {NoFile}
    \cup [present : {TRUE}, filename : Filenames, format : Formats, table : {SampleTable}]
    \cup [present : {TRUE}, filename : {<<"data", "csv">>}, format : {"csv"},
          table : Tables(maxRows)]
    \cup [present : {TRUE}, filename : {<<"data", "xlsx">>}, format : {"excel"},
          table : {t \in Tables(maxRows) : Len(t.rows) = 0}]

\* ---------------------------------------------------------- utility functions
ALLOWED_EXTENSIONS == {"xlsx", "csv", "xls"}

\* str.lower() on the extensions that occur
Lower(s) == CASE s = "CSV" -> "csv" [] OTHER -> s

allowed_file(filename) ==
    /\ Len(filename) >= 2
    /\ Lower(filename[Len(filename)]) \in ALLOWED_EXTENSIONS

\* pandas: read_csv raises on a non-CSV payload and on a file with no columns
\* (EmptyDataError); read_excel raises on a non-Excel payload
read_uploaded_file(file) ==
    LET csv == Len(file.filename) >= 2 /\ file.filename[Len(file.filename)] = "csv"
        ok == IF csv THEN file.format = "csv" /\ file.table.columns # <<>>
                     ELSE file.format = "excel"
    IN IF ok THEN [ok |-> TRUE, df |-> file.table]
             ELSE [ok |-> FALSE, error |-> [prefix |-> "Error reading file", names |-> {}]]

EmptyNoColumns(df) == Len(df.columns) = 0

\* DataFrame.empty : any axis of length 0
Empty(df) == Len(df.rows) = 0 \/ Len(df.columns) = 0

Column(df, c) == LET j == IndexOf(df.columns, c) IN [i \in 1..Len(df.rows) |-> df.rows[i][j]]
SetColumn(df, c, vals) ==
    LET j == IndexOf(df.columns, c)
    IN [df EXCEPT !.rows = [i \in 1..Len(df.rows) |-> [df.rows[i] EXCEPT ![j] = vals[i]]]]

\* select_dtypes(include=['object']) : the columns holding text
IsObject(df, c) == \E v \in Range(Column(df, c)) : IsText(v)

\* Series.astype(str)
AsStr(v) == IF IsText(v) THEN v ELSE Text(ToString(v.n))

\* LabelEncoder.transform : raises on any label outside classes_
EncoderAccepts(vals) == \A v \in Range(vals) : v.s \in Range(Vocabulary)
EncoderTransform(vals) == [i \in DOMAIN vals |-> Num(IndexOf(Vocabulary, vals[i].s) - 1)]

\* the loop over categorical_cols, one column at a time
RECURSIVE EncodeColumns(_, _)
EncodeColumns(df, cols) ==
    IF cols = <<>> THEN [df |-> df, warnings |-> {}]
    ELSE LET c == Head(cols)
             vals == Column(df, c)
             strs == [i \in DOMAIN vals |-> AsStr(vals[i])]
             asstr == SetColumn(df, c, strs)
         IN IF EncoderAccepts(strs)
            THEN EncodeColumns(SetColumn(asstr, c, EncoderTransform(strs)), Tail(cols))
            ELSE LET rest == EncodeColumns(asstr, Tail(cols))
                 IN [df |-> rest.df, warnings |-> rest.warnings \cup {c}]

\* StandardScaler.transform on the selected columns
ScaleValue(c, v) == Num((v.n - ScalerMean(c)) \div ScalerScale(c))

RECURSIVE ScaleColumns(_, _)
ScaleColumns(df, cols) ==
    IF cols = <<>> THEN df
    ELSE LET c == Head(cols)
             vals == Column(df, c)
         IN ScaleColumns(SetColumn(df, c, [i \in DOMAIN vals |-> ScaleValue(c, vals[i])]),
                         Tail(cols))

preprocess_data(df) ==
    LET categorical_cols == SelectSeq(df.columns, LAMBDA c : IsObject(df, c))
        enc == EncodeColumns(df, categorical_cols)
        features_to_scale == SelectSeq(ScalerFeatures, LAMBDA c : c \in Range(df.columns))
        missing == Range(ScalerFeatures) \ Range(features_to_scale)
        textual == \E c \in Range(features_to_scale) : \E v \in Range(Column(enc.df, c)) : IsText(v)
    IN IF features_to_scale = <<>>
       THEN [ok |-> TRUE, df |-> enc.df, warnings |-> enc.warnings]
       ELSE IF missing # {} \/ textual
       THEN [ok |-> FALSE, warnings |-> enc.warnings,
             error |-> [prefix |-> "Error preprocessing data", names |-> missing]]
       ELSE [ok |-> TRUE, df |-> ScaleColumns(enc.df, features_to_scale),
             warnings |-> enc.warnings]

\* LogisticRegression: decision value, label and class probabilities (percent)
Decision(row) == 2 * row[1].n + row[2].n - 4
ModelPredictRow(row) == IF Decision(row) > 0 THEN 1 ELSE 0
ModelProbaRow(row) ==
    LET p1 == IF Decision(row) > 0 THEN 73 ELSE 27
    IN <<100 - p1, p1>>

\* what MODEL.predict / predict_proba accept: the declared features, in the
\* declared order, all numeric
ModelAccepts(X) ==
    /\ X.columns = ModelFeatures
    /\ \A i \in 1..Len(X.rows) : \A j \in 1..Len(X.columns) : IsNum(X.rows[i][j])

make_predictions(df_processed) ==
    IF ModelAccepts(df_processed)
    THEN [ok |-> TRUE,
          predictions |-> [i \in 1..Len(df_processed.rows) |-> ModelPredictRow(df_processed.rows[i])],
          probabilities |-> [i \in 1..Len(df_processed.rows) |-> ModelProbaRow(df_processed.rows[i])]]
    ELSE [ok |-> FALSE,
          error |-> [prefix |-> "Error making predictions",
                     names |-> (Range(ModelFeatures) \ Range(df_processed.columns))
                               \cup (Range(df_processed.columns) \ Range(ModelFeatures))]]

\* an ordered dict: a sequence of <<key, value>> pairs
Keys(d) == [k \in DOMAIN d |-> d[k][1]]
DictSet(d, key, v) ==
    IF \E k \in DOMAIN d : d[k][1] = key
    THEN [k \in DOMAIN d |-> IF d[k][1] = key THEN <<key, v>> ELSE d[k]]
    ELSE Append(d, <<key, v>>)

\* DataFrame.to_dict('records')
to_dict(df) == [i \in 1..Len(df.rows) |->
                  [j \in 1..Len(df.columns) |-> <<df.columns[j], df.rows[i][j]>>]]

\* ------------------------------------------------------------------ summary
Frac(n, d) == [num |-> n, den |-> d]
FracEq(a, b) == a.num * b.den = b.num * a.den

\* Python round(): to the nearest, ties to even
RoundHalfEven(n, d) ==
    LET q == n \div d
        r == n % d
    IN IF 2 * r < d THEN q
       ELSE IF 2 * r > d THEN q + 1
       ELSE IF q % 2 = 0 THEN q ELSE q + 1

\* the digits after the second decimal cut off
Round2Truncate(x) == Frac((100 * x.num) \div x.den, 100)

\* round(x, 2)
Round2(x) == Frac(RoundHalfEven(100 * x.num, x.den), 100)

\* total_rows, fraud_count, legit_count, fraud_percentage
Statistics(predictions) ==
    LET total_rows == Len(predictions)
        fraud_count == SumSeq(predictions)
    IN [total_rows |-> total_rows,
        fraud_count |-> fraud_count,
        legit_count |-> total_rows - fraud_count,
        fraud_percentage |-> IF total_rows > 0 THEN Frac(fraud_count * 100, total_rows)
                                               ELSE Frac(0, 1)]

\* the JSON body of a successful /api/predict
SuccessResponse(predictions, probabilities) ==
    LET st == Statistics(predictions)
    IN [status |-> 200, success |-> TRUE,
        total_rows |-> st.total_rows,
        fraud_count |-> st.fraud_count,
        legit_count |-> st.legit_count,
        fraud_percentage |-> Round2(st.fraud_percentage),
        predictions |-> predictions,
        probabilities |-> probabilities]

ErrorResponse(status, error) == [status |-> status, success |-> FALSE, error |-> error]
Message(text) == [prefix |-> text, names |-> {}]

\* the new batch appended to the one already held
NewPredictionsMerged(df, predictions, probabilities) ==
    IF LAST_PREDICTIONS = None
    THEN [original_data |-> to_dict(df), predictions |-> predictions,
          probabilities |-> probabilities]
    ELSE [original_data |-> LAST_PREDICTIONS.original_data \o to_dict(df),
          predictions |-> LAST_PREDICTIONS.predictions \o predictions,
          probabilities |-> LAST_PREDICTIONS.probabilities \o probabilities]

\* the value predict() binds to LAST_PREDICTIONS
NewPredictions(df, predictions, probabilities) ==
    [original_data |-> to_dict(df),
     predictions |-> predictions,
     probabilities |-> probabilities]

\* streamlit: df_results, the upload with the three result columns appended
ResultsFrame(df, predictions, probabilities) ==
    [columns |-> df.columns \o <<"Prediction", "Fraud_Probability", "Legit_Probability">>,
     rows |-> [i \in 1..Len(df.rows) |->
                 df.rows[i] \o <<Num(predictions[i]), Num(probabilities[i][2]),
                                 Num(probabilities[i][1])>>]]

\* streamlit: the value bound to st.session_state['results']
SessionResults(df, predictions, probabilities) ==
    LET st == Statistics(predictions)
    IN [total_rows |-> st.total_rows,
        fraud_count |-> st.fraud_count,
        legit_count |-> st.legit_count,
        fraud_percentage |-> st.fraud_percentage,
        df_results |-> ResultsFrame(df, predictions, probabilities)]

\* ==================================================================== state
Handlers == {"predict", "get_predictions", "download_predictions"}

\* req.entry is the session state found when the request came in; req.called
\* the pipeline functions it invoked; req.model_input what MODEL.predict got
NoRules == [pc |-> "idle", batch |-> None, i |-> 0, fraud_flags |-> <<>>, branches |-> <<>>]
NoRequest == [upload |-> None, df |-> None, df_processed |-> None, model_input |-> None,
              predictions |-> <<>>, probabilities |-> <<>>, response |-> None,
              entry |-> None, called |-> {}, warnings |-> {}, clicked |-> FALSE]
NoRead == [response |-> None]
\* dl.sources: the values of LAST_PREDICTIONS the handler has read its columns from
NoDownload == [df_results |-> None, response |-> None, sources |-> {}]

Init ==
    /\ app \in {"flask", "streamlit"}
    /\ LAST_PREDICTIONS = None
    /\ session_state = None
    /\ pc = [h \in Handlers |-> "idle"]
    /\ req = NoRequest
    /\ gp = NoRead
    /\ dl = NoDownload
    /\ last_success = None
    /\ rules = NoRules

\* ------------------------------------------------------- /api/predict (app.py)
\* request arrives; file checks, read_uploaded_file, df.empty
PredictRecv(u) ==
    /\ app = "flask"
    /\ pc["predict"] = "idle"
    /\ LET r0 == [NoRequest EXCEPT !.upload = u, !.entry = LAST_PREDICTIONS]
           rd == read_uploaded_file(u)
           r1 == [r0 EXCEPT !.called = {"read_uploaded_file"}]
           done(r, resp) == /\ req' = [r EXCEPT !.response = resp]
                            /\ pc' = [pc EXCEPT !["predict"] = "done"]
       IN IF ~u.present THEN done(r0, ErrorResponse(400, Message("No file provided")))
          ELSE IF u.filename = <<"">> THEN done(r0, ErrorResponse(400, Message("No file selected")))
          ELSE IF ~allowed_file(u.filename)
               THEN done(r0, ErrorResponse(400, Message("File type not allowed")))
          ELSE IF ~rd.ok THEN done(r1, ErrorResponse(400, rd.error))
          ELSE IF Empty(rd.df)
               THEN done([r1 EXCEPT !.df = rd.df], ErrorResponse(400, Message("Uploaded file is empty")))
          ELSE /\ req' = [r1 EXCEPT !.df = rd.df]
               /\ pc' = [pc EXCEPT !["predict"] = "read"]
    /\ UNCHANGED <<app, rules, last_success, LAST_PREDICTIONS, session_state, gp, dl>>

\* df_processed = preprocess_data(df)
PredictPreprocess ==
    /\ app = "flask"
    /\ pc["predict"] = "read"
    /\ LET p == preprocess_data(req.df)
           r == [req EXCEPT !.called = @ \cup {"preprocess_data"}, !.warnings = p.warnings]
       IN IF p.ok
          THEN /\ req' = [r EXCEPT !.df_processed = p.df]
               /\ pc' = [pc EXCEPT !["predict"] = "preprocessed"]
          ELSE /\ req' = [r EXCEPT !.response = ErrorResponse(400, p.error)]
               /\ pc' = [pc EXCEPT !["predict"] = "done"]
    /\ UNCHANGED <<app, rules, last_success, LAST_PREDICTIONS, session_state, gp, dl>>

\* the global bound to the upload before the classifier has answered
PredictScoreStoresFirst ==
    /\ app = "flask"
    /\ pc["predict"] = "preprocessed"
    /\ LET m == make_predictions(req.df_processed)
           r == [req EXCEPT !.called = @ \cup {"make_predictions"},
                            !.model_input = req.df_processed]
       IN /\ LAST_PREDICTIONS' = [original_data |-> to_dict(req.df), predictions |-> <<>>,
                                  probabilities |-> <<>>]
          /\ IF m.ok
             THEN /\ req' = [r EXCEPT !.predictions = m.predictions,
                                      !.probabilities = m.probabilities]
                  /\ pc' = [pc EXCEPT !["predict"] = "scored"]
             ELSE /\ req' = [r EXCEPT !.response = ErrorResponse(400, m.error)]
                  /\ pc' = [pc EXCEPT !["predict"] = "done"]
    /\ UNCHANGED <<app, rules, last_success, session_state, gp, dl>>

\* predictions, probabilities = make_predictions(df_processed)
PredictScore ==
    /\ app = "flask"
    /\ pc["predict"] = "preprocessed"
    /\ LET m == make_predictions(req.df_processed)
           r == [req EXCEPT !.called = @ \cup {"make_predictions"},
                            !.model_input = req.df_processed]
       IN IF m.ok
          THEN /\ req' = [r EXCEPT !.predictions = m.predictions,
                                   !.probabilities = m.probabilities]
               /\ pc' = [pc EXCEPT !["predict"] = "scored"]
          ELSE /\ req' = [r EXCEPT !.response = ErrorResponse(400, m.error)]
               /\ pc' = [pc EXCEPT !["predict"] = "done"]
    /\ UNCHANGED <<app, rules, last_success, LAST_PREDICTIONS, session_state, gp, dl>>

\* LAST_PREDICTIONS = {...}
PredictStore ==
    /\ app = "flask"
    /\ pc["predict"] = "scored"
    /\ LAST_PREDICTIONS' = NewPredictions(req.df, req.predictions, req.probabilities)
    /\ pc' = [pc EXCEPT !["predict"] = "stored"]
    /\ UNCHANGED <<app, rules, last_success, session_state, req, gp, dl>>

\* statistics and the JSON response
PredictRespond ==
    /\ app = "flask"
    /\ pc["predict"] = "stored"
    /\ req' = [req EXCEPT !.response = SuccessResponse(req.predictions, req.probabilities)]
    /\ pc' = [pc EXCEPT !["predict"] = "done"]
    /\ last_success' = req.upload.table
    /\ UNCHANGED <<app, rules, LAST_PREDICTIONS, session_state, gp, dl>>

\* the response is sent and the request's locals are dropped
PredictReturn ==
    /\ pc["predict"] = "done"
    /\ req' = NoRequest
    /\ pc' = [pc EXCEPT !["predict"] = "idle"]
    /\ UNCHANGED <<app, rules, last_success, LAST_PREDICTIONS, session_state, gp, dl>>

\* ------------------------------------------ main() (streamlit_app.py), one run
\* st.error / st.success / the preview shown without a click
DashRerun(u, click) ==
    /\ app = "streamlit"
    /\ pc["predict"] = "idle"
    /\ LET r0 == [NoRequest EXCEPT !.upload = u, !.entry = session_state, !.clicked = click]
           rd == read_uploaded_file(u)
           r1 == [r0 EXCEPT !.called = {"read_uploaded_file"}]
           r2 == [r1 EXCEPT !.df = rd.df]
           p == preprocess_data(rd.df)
           r3 == [r2 EXCEPT !.called = @ \cup {"preprocess_data"}, !.warnings = p.warnings]
           m == make_predictions(p.df)
           r4 == [r3 EXCEPT !.df_processed = p.df, !.model_input = p.df,
                            !.called = @ \cup {"make_predictions"}]
           end(r, resp, results) ==
               /\ req' = [r EXCEPT !.response = resp]
               /\ session_state' = results
               /\ last_success' = IF resp.status = 200 /\ resp.success THEN u.table
                                                                      ELSE last_success
       IN IF ~u.present
          THEN end(r0, [status |-> 200, success |-> FALSE, shown |-> "uploader"], session_state)
          ELSE IF ~allowed_file(u.filename)
          THEN end(r0, ErrorResponse(400, Message("File type not allowed")), session_state)
          ELSE IF ~rd.ok THEN end(r1, ErrorResponse(400, rd.error), session_state)
          ELSE IF Empty(rd.df)
          THEN end(r2, ErrorResponse(400, Message("Uploaded file is empty")), session_state)
          ELSE IF ~click
          THEN end(r2, [status |-> 200, success |-> FALSE, shown |-> "preview"], session_state)
          ELSE IF ~p.ok THEN end(r3, ErrorResponse(400, p.error), session_state)
          ELSE IF ~m.ok THEN end(r4, ErrorResponse(400, m.error), session_state)
          ELSE end([r4 EXCEPT !.predictions = m.predictions, !.probabilities = m.probabilities],
                   [status |-> 200, success |-> TRUE, total_rows |-> Len(m.predictions)],
                   SessionResults(rd.df, m.predictions, m.probabilities))
    /\ pc' = [pc EXCEPT !["predict"] = "done"]
    /\ UNCHANGED <<app, rules, LAST_PREDICTIONS, gp, dl>>

\* --------------------------------------------------- /api/predictions (app.py)
\* if LAST_PREDICTIONS is None
GetCheck ==
    /\ app = "flask"
    /\ pc["get_predictions"] = "idle"
    /\ IF LAST_PREDICTIONS = None
       THEN /\ gp' = [response |-> ErrorResponse(404, Message("No predictions available"))]
            /\ pc' = [pc EXCEPT !["get_predictions"] = "done"]
       ELSE /\ gp' = gp
            /\ pc' = [pc EXCEPT !["get_predictions"] = "checked"]
    /\ UNCHANGED <<app, rules, last_success, LAST_PREDICTIONS, session_state, req, dl>>

\* return jsonify(LAST_PREDICTIONS)
GetJsonify ==
    /\ pc["get_predictions"] = "checked"
    /\ gp' = [response |-> [status |-> 200, success |-> TRUE, body |-> LAST_PREDICTIONS]]
    /\ pc' = [pc EXCEPT !["get_predictions"] = "done"]
    /\ UNCHANGED <<app, rules, last_success, LAST_PREDICTIONS, session_state, req, dl>>

GetReturn ==
    /\ pc["get_predictions"] = "done"
    /\ gp' = NoRead
    /\ pc' = [pc EXCEPT !["get_predictions"] = "idle"]
    /\ UNCHANGED <<app, rules, last_success, LAST_PREDICTIONS, session_state, req, dl>>

\* ------------------------------------------ /api/download-predictions (app.py)
\* df_results[name] = values : pandas raises when the lengths differ
AssignColumn(df_results, name, values) ==
    [i \in 1..Len(df_results) |-> DictSet(df_results[i], name, Num(values[i]))]

DlStep(next, name, values) ==
    IF Len(values) = Len(dl.df_results)
    THEN /\ dl' = [dl EXCEPT !.df_results = AssignColumn(dl.df_results, name, values),
                             !.sources = @ \cup {LAST_PREDICTIONS}]
         /\ pc' = [pc EXCEPT !["download_predictions"] = next]
    ELSE /\ dl' = [dl EXCEPT !.response = ErrorResponse(500, Message("Length of values does not match length of index"))]
         /\ pc' = [pc EXCEPT !["download_predictions"] = "done"]

\* if LAST_PREDICTIONS is None
DlCheck ==
    /\ app = "flask"
    /\ pc["download_predictions"] = "idle"
    /\ IF LAST_PREDICTIONS = None
       THEN /\ dl' = [dl EXCEPT !.response = ErrorResponse(404, Message("No predictions available"))]
            /\ pc' = [pc EXCEPT !["download_predictions"] = "done"]
       ELSE /\ dl' = dl
            /\ pc' = [pc EXCEPT !["download_predictions"] = "records"]
    /\ UNCHANGED <<app, rules, last_success, LAST_PREDICTIONS, session_state, req, gp>>

\* df_results = pd.DataFrame(LAST_PREDICTIONS['original_data'])
DlRecords ==
    /\ pc["download_predictions"] = "records"
    /\ dl' = [dl EXCEPT !.df_results = LAST_PREDICTIONS.original_data,
                        !.sources = {LAST_PREDICTIONS}]
    /\ pc' = [pc EXCEPT !["download_predictions"] = "prediction"]
    /\ UNCHANGED <<app, rules, last_success, LAST_PREDICTIONS, session_state, req, gp>>

\* df_results['Prediction'] = LAST_PREDICTIONS['predictions']
DlPrediction ==
    /\ pc["download_predictions"] = "prediction"
    /\ DlStep("fraud", "Prediction", LAST_PREDICTIONS.predictions)
    /\ UNCHANGED <<app, rules, last_success, LAST_PREDICTIONS, session_state, req, gp>>

\* df_results['Fraud_Probability'] = [prob[1] for prob in LAST_PREDICTIONS['probabilities']]
DlFraud ==
    /\ pc["download_predictions"] = "fraud"
    /\ DlStep("legit", "Fraud_Probability",
              [i \in DOMAIN LAST_PREDICTIONS.probabilities |-> LAST_PREDICTIONS.probabilities[i][2]])
    /\ UNCHANGED <<app, rules, last_success, LAST_PREDICTIONS, session_state, req, gp>>

\* df_results['Legit_Probability'] = [prob[0] for ...]
DlLegit ==
    /\ pc["download_predictions"] = "legit"
    /\ DlStep("send", "Legit_Probability",
              [i \in DOMAIN LAST_PREDICTIONS.probabilities |-> LAST_PREDICTIONS.probabilities[i][1]])
    /\ UNCHANGED <<app, rules, last_success, LAST_PREDICTIONS, session_state, req, gp>>

\* to_csv and send_file
DlSend ==
    /\ pc["download_predictions"] = "send"
    /\ dl' = [dl EXCEPT !.response = [status |-> 200, success |-> TRUE,
                                      header |-> Keys(dl.df_results[1]),
                                      csv |-> dl.df_results]]
    /\ pc' = [pc EXCEPT !["download_predictions"] = "done"]
    /\ UNCHANGED <<app, rules, last_success, LAST_PREDICTIONS, session_state, req, gp>>

DlReturn ==
    /\ pc["download_predictions"] = "done"
    /\ dl' = NoDownload
    /\ pc' = [pc EXCEPT !["download_predictions"] = "idle"]
    /\ UNCHANGED <<app, rules, last_success, LAST_PREDICTIONS, session_state, req, gp>>

\* ------------------------------------------------------------ specifications
AllIdle == \A h \in Handlers : pc[h] = "idle"

PipelineStep ==
    \/ PredictPreprocess
    \/ PredictScore
    \/ PredictStore
    \/ PredictRespond
    \/ PredictReturn

ReaderStep ==
    \/ GetJsonify
    \/ GetReturn
    \/ DlRecords
    \/ DlPrediction
    \/ DlFraud
    \/ DlLegit
    \/ DlSend
    \/ DlReturn

\* requests served one at a time
Next ==
    \/ \E u \in Uploads(MaxRows) : AllIdle /\ PredictRecv(u)
    \/ \E u \in Uploads(MaxRows), click \in BOOLEAN : DashRerun(u, click)
    \/ AllIdle /\ GetCheck
    \/ AllIdle /\ DlCheck
    \/ PipelineStep
    \/ ReaderStep

Spec == Init /\ [][Next]_vars

\* the threaded server: handlers interleave at every access to the global
InitConc == Init /\ app = "flask"

NextConc ==
    \/ \E u \in Uploads(MaxConcRows) : PredictRecv(u)
    \/ GetCheck
    \/ DlCheck
    \/ PipelineStep
    \/ ReaderStep

SpecConc == InitConc /\ [][NextConc]_vars

\* ============================================================ rule overlay
\* The rule overlay engine, spec section 4.3 and 6: applyRules(batch).  It works
\* on raw field values.  A string is the sequence of its pieces, " " being
\* white space: "Credit Card" is <<"Credit", " ", "Card">>, "" is <<>>.  A
\* field is missing when the batch has no such column or the cell is None.
RuleFields == <<"Amount", "Country", "PaymentType", "Currency">>
AmountLimit == 13500
FraudCountries == {<<"Morocco">>, <<"Pakistan">>}
FraudPaymentTypes == {<<"Check">>, <<"Credit", " ", "Card">>}
FraudCurrencies == {<<"MAD">>, <<"PKR">>, <<"AED">>}

\* raw values of the batches given to the overlay
RuleValues(c) ==
    CASE c = "Amount" -> {Num(13500), Num(13501)}
      [] c = "Country" -> {None, Text(<<" ", "Morocco">>), Text(<<"Pakistan">>),
                           Text(<<"France">>)}
      [] c = "PaymentType" -> {Text(<<"Credit", " ", "Card">>), Text(<<"Cash">>)}
      [] c = "Currency" -> {None, Text(<<"MAD">>)}

RuleLayouts == { RuleFields, <<"Country", "PaymentType", "Currency">>, <<"Amount", "Country">> }

RECURSIVE RuleRowsOver(_)
RuleRowsOver(cols) ==
    IF cols = <<>> THEN {<<>>}
    ELSE { <<v>> \o r : v \in RuleValues(Head(cols)), r \in RuleRowsOver(Tail(cols)) }

RuleBatches(maxRows) ==
    UNION { { [columns |-> cols, rows |-> rs] :
                rs \in UNION { [1..n -> RuleRowsOver(cols)] : n \in 0..maxRows } } :
            cols \in RuleLayouts }

\* record i of a batch: a mapping from column name to raw value
Record(batch, i) ==
    [c \in Range(batch.columns) |-> batch.rows[i][IndexOf(batch.columns, c)]]

\* default / missing-field substitution
Field(record, name, default) ==
    IF name \in DOMAIN record /\ record[name] # None THEN record[name] ELSE default

\* string comparisons are post-trim
RECURSIVE StripLeft(_)
StripLeft(s) == IF s # <<>> /\ Head(s) = " " THEN StripLeft(Tail(s)) ELSE s
RECURSIVE StripRight(_)
StripRight(s) ==
    IF s # <<>> /\ s[Len(s)] = " " THEN StripRight(SubSeq(s, 1, Len(s) - 1)) ELSE s
Strip(s) == StripRight(StripLeft(s))

\* RuleBranch with the limit itself counted as over the limit
RuleBranchInclusive(record) ==
    LET amount == Field(record, "Amount", Num(0)).n
        country == Strip(Field(record, "Country", Text(<<>>)).s)
        payment == Strip(Field(record, "PaymentType", Text(<<>>)).s)
        currency == Strip(Field(record, "Currency", Text(<<>>)).s)
    IN  IF amount >= AmountLimit THEN 1
        ELSE IF amount < AmountLimit /\ country \in FraudCountries THEN 2
        ELSE IF payment \in FraudPaymentTypes /\ currency \in FraudCurrencies THEN 3
        ELSE 4

\* the branch that decides a record: priority order, first match wins
RuleBranch(record) ==
    LET amount == Field(record, "Amount", Num(0)).n
        country == Strip(Field(record, "Country", Text(<<>>)).s)
        payment == Strip(Field(record, "PaymentType", Text(<<>>)).s)
        currency == Strip(Field(record, "Currency", Text(<<>>)).s)
    IN  IF amount > AmountLimit THEN 1
        ELSE IF amount <= AmountLimit /\ country \in FraudCountries THEN 2
        ELSE IF payment \in FraudPaymentTypes /\ currency \in FraudCurrencies THEN 3
        ELSE 4

RuleFlag(branch) == IF branch = 4 THEN 0 ELSE 1

\* applyRules is called with a batch
ApplyRulesCall ==
    /\ rules.pc = "idle"
    /\ \E b \in RuleBatches(MaxRuleRows) :
         rules' = [pc |-> "running", batch |-> b, i |-> 0,
                   fraud_flags |-> <<>>, branches |-> <<>>]
    /\ UNCHANGED <<app, LAST_PREDICTIONS, session_state, pc, req, gp, dl, last_success>>

\* one turn of the row-by-row iteration: the next record is decided
ApplyRulesRecord ==
    /\ rules.pc = "running"
    /\ rules.i < Len(rules.batch.rows)
    /\ LET branch == RuleBranch(Record(rules.batch, rules.i + 1))
       IN  rules' = [rules EXCEPT !.i = rules.i + 1,
                                  !.fraud_flags = Append(rules.fraud_flags, RuleFlag(branch)),
                                  !.branches = Append(rules.branches, branch)]
    /\ UNCHANGED <<app, LAST_PREDICTIONS, session_state, pc, req, gp, dl, last_success>>

\* the iteration is over: fraud_flags is returned
ApplyRulesReturn ==
    /\ rules.pc = "running"
    /\ rules.i = Len(rules.batch.rows)
    /\ rules' = [rules EXCEPT !.pc = "done"]
    /\ UNCHANGED <<app, LAST_PREDICTIONS, session_state, pc, req, gp, dl, last_success>>

\* the caller has taken the flags
ApplyRulesDone ==
    /\ rules.pc = "done"
    /\ rules' = NoRules
    /\ UNCHANGED <<app, LAST_PREDICTIONS, session_state, pc, req, gp, dl, last_success>>

\* the overlay on its own, without the classifier
NextRules ==
    \/ ApplyRulesCall
    \/ ApplyRulesRecord
    \/ ApplyRulesReturn
    \/ ApplyRulesDone

\* the overlay belongs to the dashboard scenario (spec 4.4)
InitRules == Init /\ app = "streamlit"

SpecRules == InitRules /\ [][NextRules]_vars

\* ==================================================================== claims
\* the Prediction Session State of the running program
SessionState == IF app = "flask" THEN LAST_PREDICTIONS ELSE session_state

Answered == pc["predict"] = "done"
Failed == Answered /\ req.response.status # 200
Succeeded == Answered /\ req.response.status = 200 /\ req.response.success
\* the request went past the file checks and (dashboard) the button was clicked
Submitted == req.df # None /\ ~Empty(req.df) /\ (app = "streamlit" => req.clicked)

\* C1: a predict request that ends in an error leaves the Prediction Session
\* State (LAST_PREDICTIONS, st.session_state['results']) as it found it.
C1_ErrorLeavesStateUnchanged == Failed => SessionState = req.entry

\* an earlier batch is held and the classifier rejects the new one
C1_Witness ==
    /\ Failed
    /\ req.entry # None
    /\ "make_predictions" \in req.called
    /\ SessionState = req.entry

\* C3: a batch of zero records is rejected with an error before preprocess_data
\* or make_predictions runs, and the Prediction Session State is unchanged.
ZeroRecords == req.upload # None /\ req.upload.present /\ Len(req.upload.table.rows) = 0

C3_EmptyBatchRejected ==
    ZeroRecords =>
        /\ Failed
        /\ req.called \subseteq {"read_uploaded_file"}
        /\ req.model_input = None
        /\ req.predictions = <<>>
        /\ SessionState = req.entry

\* a header-only file is read and refused while an earlier batch is held
C3_Witness ==
    /\ ZeroRecords
    /\ req.df # None
    /\ req.df.columns = ModelFeatures
    /\ req.response.error = Message("Uploaded file is empty")
    /\ req.entry # None

\* C4: between requests the Prediction Session State is empty exactly when no
\* request has succeeded (readers then get 'No predictions available'), and
\* otherwise holds the records, predictions and probabilities of the latest
\* successful request and nothing else.
Scores(table) == make_predictions(preprocess_data(table).df)

HoldsBatch(state, table) ==
    LET scores == Scores(table)
    IN IF app = "flask"
       THEN /\ DOMAIN state = {"original_data", "predictions", "probabilities"}
            /\ state.original_data = to_dict(table)
            /\ state.predictions = scores.predictions
            /\ state.probabilities = scores.probabilities
       ELSE /\ Len(state.df_results.rows) = Len(table.rows)
            /\ state.df_results = ResultsFrame(table, scores.predictions, scores.probabilities)

C4_StateIsLatestSuccess ==
    /\ pc["predict"] \in {"idle", "done"} =>
          IF last_success = None THEN SessionState = None
          ELSE SessionState # None /\ HoldsBatch(SessionState, last_success)
    /\ pc["get_predictions"] = "done" =>
          IF last_success = None THEN gp.response.status = 404
          ELSE gp.response.status = 200 /\ HoldsBatch(gp.response.body, last_success)
    /\ (pc["download_predictions"] = "done" /\ last_success = None) =>
          dl.response.status = 404

\* a second batch has replaced a different first one
C4_Witness ==
    /\ app = "flask"
    /\ Succeeded
    /\ req.entry # None
    /\ req.entry # LAST_PREDICTIONS
    /\ Len(req.entry.original_data) > Len(LAST_PREDICTIONS.original_data)
    /\ HoldsBatch(LAST_PREDICTIONS, last_success)

\* C5: a batch lacking a column the scaler declares fails in preprocessing with
\* an error naming the missing column, never reaches the classifier, and
\* leaves the Prediction Session State unchanged.
MissingScalerColumns(df) == Range(ScalerFeatures) \ Range(df.columns)

C5_MissingScalerColumnRejected ==
    (Answered /\ Submitted /\ MissingScalerColumns(req.df) # {}) =>
        /\ Failed
        /\ req.response.error.prefix = "Error preprocessing data"
        /\ MissingScalerColumns(req.df) \subseteq req.response.error.names
        /\ "make_predictions" \notin req.called
        /\ SessionState = req.entry

\* C6: the matrix passed to MODEL.predict / predict_proba has exactly the
\* classifier's declared features as its columns, in the declared order.
C6_ClassifierGetsDeclaredColumns ==
    req.model_input # None => req.model_input.columns = ModelFeatures

\* C7: in the matrix passed to the classifier every categorical column of the
\* input holds integer codes only, never its text values.
C7_ClassifierGetsOnlyCodes ==
    req.model_input # None =>
        \A c \in Range(req.df.columns) :
            IsObject(req.df, c) =>
                \A v \in Range(Column(req.model_input, c)) : IsNum(v)

\* C8: a label outside the encoder's vocabulary is encoded as code 0 (the
\* first vocabulary entry), the other labels of the column get their own
\* codes, and the batch completes scoring.
HasUnseenLabel(df) ==
    \E c \in Range(df.columns) :
        IsObject(df, c) /\ \E v \in Range(Column(df, c)) : AsStr(v).s \notin Range(Vocabulary)

FallbackCode(v) ==
    IF AsStr(v).s \in Range(Vocabulary) THEN Num(IndexOf(Vocabulary, AsStr(v).s) - 1)
                                        ELSE Num(0)

C8_UnseenLabelFallsBackToFirst ==
    (Answered /\ Submitted /\ req.df.columns = ModelFeatures /\ HasUnseenLabel(req.df)) =>
        /\ Succeeded
        /\ req.model_input # None
        /\ \A c \in Range(req.df.columns) :
              IsObject(req.df, c) =>
                  \A i \in 1..Len(req.df.rows) :
                      Column(req.model_input, c)[i] = FallbackCode(Column(req.df, c)[i])

\* C2: with predict running concurrently, what a reader returns is built from
\* one value of LAST_PREDICTIONS: original_data, predictions and probabilities
\* of the same predict request.
FromRecords(records) ==
    [columns |-> Keys(records[1]),
     rows |-> [i \in 1..Len(records) |-> [j \in 1..Len(records[i]) |-> records[i][j][2]]]]

\* the download built from the single value s
ExportOf(s) ==
    AssignColumn(
        AssignColumn(
            AssignColumn(s.original_data, "Prediction", s.predictions),
            "Fraud_Probability", [i \in DOMAIN s.probabilities |-> s.probabilities[i][2]]),
        "Legit_Probability", [i \in DOMAIN s.probabilities |-> s.probabilities[i][1]])

C2_ReadersSeeOneState ==
    /\ (pc["get_predictions"] = "done" /\ gp.response.status = 200) =>
          HoldsBatch(gp.response.body, FromRecords(gp.response.body.original_data))
    /\ (pc["download_predictions"] = "done" /\ dl.response.status = 200) =>
          \E s \in dl.sources : dl.response.csv = ExportOf(s)

\* C9: the stored and the exported result of a scored batch have one scored
\* record per input record, record i being raw input record i with
\* predictions[i], probabilities[i][1] (fraud) and probabilities[i][0] (legit).
ScoredRecord(table, i) ==
    to_dict(table)[i] \o << <<"Prediction", Num(Scores(table).predictions[i])>>,
                            <<"Fraud_Probability", Num(Scores(table).probabilities[i][2])>>,
                            <<"Legit_Probability", Num(Scores(table).probabilities[i][1])>> >>

RawPart(row) == SubSeq(row, 1, Len(row) - 3)

C9_ScoredRecordsMatchInput ==
    /\ (app = "flask" /\ pc["predict"] \in {"stored", "done"} /\ req.predictions # <<>>) =>
          /\ Len(LAST_PREDICTIONS.original_data) = Len(req.upload.table.rows)
          /\ Len(LAST_PREDICTIONS.predictions) = Len(req.upload.table.rows)
          /\ Len(LAST_PREDICTIONS.probabilities) = Len(req.upload.table.rows)
          /\ \A i \in 1..Len(req.upload.table.rows) :
                /\ LAST_PREDICTIONS.original_data[i] = to_dict(req.upload.table)[i]
                /\ LAST_PREDICTIONS.predictions[i] = Scores(req.upload.table).predictions[i]
                /\ LAST_PREDICTIONS.probabilities[i] = Scores(req.upload.table).probabilities[i]
    /\ (pc["download_predictions"] = "done" /\ dl.response.status = 200) =>
          LET csv == dl.response.csv
              table == FromRecords([i \in 1..Len(csv) |-> RawPart(csv[i])])
          IN \A i \in 1..Len(csv) : csv[i] = ScoredRecord(table, i)

\* C10 as claimed: total_rows is the number of input records, fraud_count the
\* number of predictions equal to 1, legit_count = total_rows - fraud_count,
\* 0 <= fraud_count <= total_rows, fraud_percentage = 100 * fraud_count / total_rows.
Summary == IF app = "flask" THEN req.response ELSE session_state
FraudPredicted == Cardinality({i \in 1..Len(req.predictions) : req.predictions[i] = 1})

CountsRight ==
    /\ Summary.total_rows = Len(req.upload.table.rows)
    /\ Summary.fraud_count = FraudPredicted
    /\ Summary.legit_count = Summary.total_rows - Summary.fraud_count
    /\ 0 <= Summary.fraud_count
    /\ Summary.fraud_count <= Summary.total_rows

C10_SummaryExact ==
    Succeeded =>
        /\ CountsRight
        /\ FracEq(Summary.fraud_percentage, Frac(100 * Summary.fraud_count, Summary.total_rows))

\* C10 amended: the counts as claimed; the server reports fraud_percentage
\* rounded to 2 decimal places (within 0.005 of 100 * fraud_count / total_rows,
\* in hundredths), the dashboard keeps the exact quotient; for no rows it is 0.
Abs(x) == IF x < 0 THEN 0 - x ELSE x

C10_SummaryRounded ==
    /\ FracEq(Statistics(<<>>).fraud_percentage, Frac(0, 1))
    /\ Succeeded =>
          /\ CountsRight
          /\ IF app = "flask"
             THEN /\ Summary.fraud_percentage.den = 100
                  /\ 2 * Abs(Summary.fraud_percentage.num * Summary.total_rows
                             - 10000 * Summary.fraud_count) <= Summary.total_rows
             ELSE FracEq(Summary.fraud_percentage,
                         Frac(100 * Summary.fraud_count, Summary.total_rows))

\* two of three records predicted fraud: 66.67 reported for 66.666...
C10_Witness ==
    /\ app = "flask"
    /\ Succeeded
    /\ req.response.total_rows = 3
    /\ req.response.fraud_count = 2
    /\ req.response.fraud_percentage = Frac(6667, 100)


\* ---------------------------------------------------------------------- C11
Missing(record, name) == name \notin DOMAIN record \/ record[name] = None
AmountOf(record) == IF Missing(record, "Amount") THEN 0 ELSE record["Amount"].n
StringOf(record, name) == IF Missing(record, name) THEN <<>> ELSE Strip(record[name].s)

\* does branch k (1..3) of the rule list match the record
Matches(k, record) ==
    CASE k = 1 -> AmountOf(record) > 13500
      [] k = 2 -> StringOf(record, "Country") \in {<<"Morocco">>, <<"Pakistan">>}
      [] k = 3 -> /\ StringOf(record, "PaymentType") \in {<<"Check">>, <<"Credit", " ", "Card">>}
                  /\ StringOf(record, "Currency") \in {<<"MAD">>, <<"PKR">>, <<"AED">>}

FirstMatch(record) ==
    IF \E k \in 1..3 : Matches(k, record)
    THEN CHOOSE k \in 1..3 : Matches(k, record) /\ \A j \in 1..(k - 1) : ~Matches(j, record)
    ELSE 4

\* C11: applyRules always succeeds and yields one flag in {0,1} per record, in
\* record order, decided by the first matching branch in priority order:
\* Amount > 13500 gives 1; else Country in {Morocco, Pakistan} gives 1; else
\* PaymentType in {Check, Credit Card} and Currency in {MAD, PKR, AED} gives 1;
\* else 0; a missing Amount counts as 0 and a missing Country, PaymentType or
\* Currency as the empty string (strings are compared after trimming).
C11_RulesFirstMatchWins ==
    /\ rules.pc = "running" => ENABLED (ApplyRulesRecord \/ ApplyRulesReturn)
    /\ rules.pc # "idle" =>
         /\ Len(rules.fraud_flags) = rules.i
         /\ rules.i <= Len(rules.batch.rows)
         /\ \A k \in 1..rules.i :
              LET record == Record(rules.batch, k)
              IN  /\ rules.fraud_flags[k] \in {0, 1}
                  /\ rules.branches[k] = FirstMatch(record)
                  /\ rules.fraud_flags[k] = (IF FirstMatch(record) = 4 THEN 0 ELSE 1)
    /\ rules.pc = "done" => Len(rules.fraud_flags) = Len(rules.batch.rows)

\* two records without Amount decided: the first has a padded "Morocco" (second
\* branch), the second has no Country and matches no branch
C11_Witness ==
    /\ rules.pc = "done"
    /\ rules.batch.columns = <<"Country", "PaymentType", "Currency">>
    /\ Len(rules.batch.rows) = 2
    /\ rules.batch.rows[1][1] = Text(<<" ", "Morocco">>)
    /\ rules.batch.rows[2][1] = None
    /\ rules.branches = <<2, 4>>
    /\ rules.fraud_flags = <<1, 0>>

=========================================================================
